---- MODULE Spec2Model ----
(***************************************************************************)
(* A model of pypico's datafile protocol: load_pico and create_pico of     *)
(* src/pypico/pypico.py, with the process-wide module registry             *)
(* (sys.modules), the data files and code files on disk, and the clock     *)
(* that create_pico hashes into a module name (Spec); a load_pico call run *)
(* by several threads of one process (SpecThreads); and convert_picofile   *)
(* of src/pypico/convert_picofile.py (SpecConvert).                        *)
(*                                                                         *)
(* The source runs, with different results, under a Python 2 and under a   *)
(* Python 3 interpreter (hashlib.md5 of a text string, pickle.dump to a    *)
(* file opened in text mode, the encoding argument of pickle.loads, the    *)
(* message attribute of an exception, imp.load_source on a failing file).  *)
(* The interpreter is the variable py, chosen once for the process.        *)
(***************************************************************************)
EXTENDS Integers, Sequences, FiniteSets, TLC

\* ---------------------------------------------------------------- bounds
\* time.ctime() has a resolution of one second: the clock counts seconds.
MaxClock == 1

\* ------------------------------------------------------------- the world
DataPaths == {"d1", "d2"}
\* The paths create_pico is asked to write to.
OutPaths == {"d2"}
\* The datafiles create_pico is asked to reuse the object of.
ReusePaths == {"d1"}
CodePaths == {"m1"}
\* The code file of a datafile made by an earlier process; not on disk any more.
OldPath == "m0"
NoPath == "none"

\* Code texts. cBad raises at module level when executed; cA and cB execute
\* and define get_pico and the PICO subclass it instantiates.
Codes == {"cA", "cB", "cBad"}
NoCode == "absent"
Raises(code) == code = "cBad"

\* Module names: 'pypico.datafiles.<md5 of absolute path + ctime>'. md5 is taken
\* to be injective on the (path, second) pairs of the model.
Names == ({OldPath} \cup CodePaths) \X (0..MaxClock)
NoName == <<>>

\* Version strings, as sequences of characters.
Digits == {"0", "1", "2", "3", "4", "5", "6", "7", "8", "9"}
DigitVal == [c \in Digits |->
    CASE c = "0" -> 0 [] c = "1" -> 1 [] c = "2" -> 2 [] c = "3" -> 3 [] c = "4" -> 4
      [] c = "5" -> 5 [] c = "6" -> 6 [] c = "7" -> 7 [] c = "8" -> 8 [] c = "9" -> 9]

\* __version__ = '3.3.0'
version__ == <<"3", ".", "3", ".", "0">>

\* The versions a datafile on disk may carry: an older minor with a newer patch,
\* a newer minor (of two digits), another major.
BundleVersions == {
    <<"3", ".", "1", ".", "7">>,
    <<"3", ".", "1", "0", ".", "0">>,
    <<"2", ".", "3", ".", "0">> }
NoVersion == <<>>

\* str.split('.'): the maximal runs between dots.
RECURSIVE split(_, _, _)
split(s, i, cur) ==
    IF i > Len(s) THEN <<cur>>
    ELSE IF s[i] = "." THEN <<cur>> \o split(s, i + 1, <<>>)
    ELSE split(s, i + 1, Append(cur, s[i]))

\* int() of a run of decimal digits.
RECURSIVE int(_)
int(ds) ==
    IF Len(ds) = 0 THEN 0
    ELSE 10 * int(SubSeq(ds, 1, Len(ds) - 1)) + DigitVal[ds[Len(ds)]]

\* list(map(int, v.split('.')))
parse(v) == LET parts == split(v, 1, <<>>) IN [k \in 1..Len(parts) |-> int(parts[k])]

\* _version_ok(version): both sides are parsed from __version__.
version_ok(version) ==
    LET mine == parse(version__)
        theirs == parse(version__)
    IN  mine[1] = theirs[1] /\ mine[2] >= theirs[2]

\* ------------------------------------------------------------ the values
Fields == {"code", "module_name", "pico", "version"}

\* pickle.dumps(pico): the class by reference (module name), and the instance state.
NoPayload == [ok |-> FALSE, mod |-> NoName, state |-> <<>>]
Payload(mod, state) == [ok |-> TRUE, mod |-> mod, state |-> state]

\* The pickled dictionary of a datafile; has is the set of its keys.
Container(has, code, name, payload, version) ==
    [has |-> has, code |-> code, module_name |-> name, pico |-> payload, version |-> version]
NoData == Container({}, NoCode, NoName, NoPayload, NoVersion)

\* What is at a data path: nothing, bytes that do not unpickle, or a datafile.
Absent == [kind |-> "absent", data |-> NoData]
Garbage == [kind |-> "garbage", data |-> NoData]
File(data) == [kind |-> "pico", data |-> data]

\* A module of sys.modules: the code last executed to the end in its namespace,
\* and the other codes that have run, at least in part, in that namespace.
NoUnit == [present |-> FALSE, code |-> NoCode, also |-> {}]
Unit(code) == [present |-> TRUE, code |-> code, also |-> {}]

\* A PICO object: the module and code its class comes from, its state, and
\* the _pico_data attribute load_pico sets.
NoPico == [valid |-> FALSE, mod |-> NoName, cls |-> NoCode, state |-> <<>>,
           hasdata |-> FALSE, pico_data |-> NoData]
Pico(mod, cls, state) == [valid |-> TRUE, mod |-> mod, cls |-> cls, state |-> state,
                          hasdata |-> FALSE, pico_data |-> NoData]

\* The arguments of get_pico a caller of create_pico gives: none (args=None, the
\* default, noargs in the model) or a list.
ArgsGiven == {<<1>>}
\* The texts the user's code file may hold.
SourceCodes == {"cB", "cBad"}

VARIABLES
    py,         \* the interpreter's major version, 2 or 3
    disk,       \* data path -> what is there
    src,        \* code path -> code text, or NoCode
    registry,   \* sys.modules: module name -> module
    clock,      \* the second time.ctime() shows
    execd,      \* the module names whose embedded code was executed in the
                \* sequence of plain loads (no module argument) under way
    done,       \* those of them whose code ran to its end
    last,       \* what the last call did
    threads     \* thread -> where its load_pico call stands

vars == <<py, disk, src, registry, clock, execd, done, last, threads>>

\* ----------------------------------------------------------- load_pico
\* The code a call executed: none, the datafile's embedded code ("embedded"),
\* or a code file through imp.load_source ("file").
NoRun == [from |-> "none", name |-> NoName, code |-> NoCode]
Ran(from, name, code) == [from |-> from, name |-> name, code |-> code]

\* imp.load_source(name, path): executes the file in the module registered as
\* name, or in a new module. When the code raises, a new module is dropped; a
\* module that was there keeps what the code did before it raised (Python 3)
\* or is removed from sys.modules (Python 2).
load_source(reg, name, path) ==
    LET code == src[path] IN
    IF code = NoCode THEN [err |-> "IOError", reg |-> reg, ran |-> NoRun]
    ELSE IF Raises(code) THEN
        [err |-> "UserError",
         reg |-> IF ~reg[name].present THEN reg
                 ELSE IF py = 3 THEN [reg EXCEPT ![name].also = @ \cup {code}]
                 ELSE [reg EXCEPT ![name] = NoUnit],
         ran |-> Ran("file", name, code)]
    ELSE
        [err |-> "none",
         reg |-> [reg EXCEPT ![name] =
                    IF @.present
                    THEN [present |-> TRUE, code |-> code,
                          also |-> (@.also \cup {@.code}) \ {code}]
                    ELSE Unit(code)],
         ran |-> Ran("file", name, code)]

\* The embedded code executed whether or not the name is registered.
exec_embedded_always(reg, data) ==
    LET name == data.module_name IN
    IF "code" \notin data.has THEN [err |-> "KeyError", reg |-> reg, ran |-> NoRun]
    ELSE IF Raises(data.code)
         THEN [err |-> "ExecError", reg |-> reg, ran |-> Ran("embedded", name, data.code)]
    ELSE [err |-> "none", reg |-> [reg EXCEPT ![name] = Unit(data.code)],
          ran |-> Ran("embedded", name, data.code)]

\* Lines 117-124: the embedded code runs only if the name is not registered;
\* the module is registered after the code ran to its end.
exec_embedded(reg, data) ==
    LET name == data.module_name IN
    IF reg[name].present THEN [err |-> "none", reg |-> reg, ran |-> NoRun]
    ELSE IF "code" \notin data.has THEN [err |-> "KeyError", reg |-> reg, ran |-> NoRun]
    ELSE IF Raises(data.code)
         THEN [err |-> "ExecError", reg |-> reg, ran |-> Ran("embedded", name, data.code)]
    ELSE [err |-> "none", reg |-> [reg EXCEPT ![name] = Unit(data.code)],
          ran |-> Ran("embedded", name, data.code)]

\* The module argument used only when the name is not registered.
materialize_cached(reg, data, module) ==
    IF "module_name" \notin data.has
    THEN [err |-> "KeyError", reg |-> reg, ran |-> NoRun]
    ELSE IF module # NoPath /\ ~reg[data.module_name].present
    THEN load_source(reg, data.module_name, module)
    ELSE exec_embedded(reg, data)

\* Lines 114-124.
materialize(reg, data, module) ==
    IF "module_name" \notin data.has
    THEN [err |-> "KeyError", reg |-> reg, ran |-> NoRun]
    ELSE IF module # NoPath THEN load_source(reg, data.module_name, module)
    ELSE exec_embedded(reg, data)

\* The payload unpickled on a class made from the datafile's own code.
loads_embedded(reg, data) ==
    LET p == data.pico IN
    IF "pico" \notin data.has THEN [err |-> "KeyError", pico |-> NoPico]
    ELSE IF py = 2 THEN [err |-> "TypeError", pico |-> NoPico]
    ELSE IF ~p.ok THEN [err |-> "UnpicklingError", pico |-> NoPico]
    ELSE [err |-> "none", pico |-> Pico(p.mod, data.code, p.state)]

\* Line 133: pickle.loads(data['pico'], encoding="latin1"). Python 2's
\* pickle.loads takes no encoding argument. The class is looked up in the
\* module the payload names.
loads(reg, data) ==
    LET p == data.pico IN
    IF "pico" \notin data.has THEN [err |-> "KeyError", pico |-> NoPico]
    ELSE IF py = 2 THEN [err |-> "TypeError", pico |-> NoPico]
    ELSE IF ~p.ok THEN [err |-> "UnpicklingError", pico |-> NoPico]
    ELSE IF ~reg[p.mod].present THEN [err |-> "ImportError", pico |-> NoPico]
    ELSE [err |-> "none", pico |-> Pico(p.mod, reg[p.mod].code, p.state)]

\* The dictionary attached with the payload left in it.
attach_whole(pico, data) ==
    [pico EXCEPT !.hasdata = TRUE, !.pico_data = data]

\* Lines 134-135: data.pop('pico'); pico._pico_data = data
attach(pico, data) ==
    [pico EXCEPT !.hasdata = TRUE,
                 !.pico_data = [data EXCEPT !.has = @ \ {"pico"}, !.pico = NoPayload]]

LoadResult(err, reg, pico, ran, warned, vchecked, vok, steps) ==
    [err |-> err, reg |-> reg, pico |-> pico, ran |-> ran, warned |-> warned,
     vchecked |-> vchecked, vok |-> vok, steps |-> steps]

\* Lines 126-130: a datafile without version gets a warning; the exception of
\* line 130 reads the undefined name _version, and is a NameError.
VersionError == "NameError"
\* The gate with a missing version treated as a failure.
version_gate_strict(data, check_version) ==
    IF ~check_version
    THEN [err |-> "none", warned |-> FALSE, vchecked |-> FALSE, vok |-> FALSE]
    ELSE IF "version" \notin data.has
    THEN [err |-> VersionError, warned |-> TRUE, vchecked |-> FALSE, vok |-> FALSE]
    ELSE IF ~version_ok(data.version)
    THEN [err |-> VersionError, warned |-> FALSE, vchecked |-> TRUE, vok |-> FALSE]
    ELSE [err |-> "none", warned |-> FALSE, vchecked |-> TRUE, vok |-> TRUE]

version_gate(data, check_version) ==
    IF ~check_version
    THEN [err |-> "none", warned |-> FALSE, vchecked |-> FALSE, vok |-> FALSE]
    ELSE IF "version" \notin data.has
    THEN [err |-> "none", warned |-> TRUE, vchecked |-> FALSE, vok |-> FALSE]
    ELSE IF ~version_ok(data.version)
    THEN [err |-> VersionError, warned |-> FALSE, vchecked |-> TRUE, vok |-> FALSE]
    ELSE [err |-> "none", warned |-> FALSE, vchecked |-> TRUE, vok |-> TRUE]

\* Lines 109-112: the Exception of line 112 is built from e.message, which no
\* Python 3 exception has.
OpenError == "OpenError"
open_error == IF py = 3 THEN "AttributeError" ELSE OpenError

\* The load with the payload unpickled before the version is looked at.
load_pico_eager(reg, datafile, module, check_version) ==
    LET f == disk[datafile]
        data == f.data
        m == materialize(reg, data, module)
        v == version_gate(data, check_version)
        l == loads(m.reg, data)
        s4 == <<"open", "code", "payload">>
                 \o (IF check_version THEN <<"version">> ELSE <<>>)
    IN  IF f.kind # "pico"
        THEN LoadResult(open_error, reg, NoPico, NoRun, FALSE, FALSE, FALSE, <<"open">>)
        ELSE IF m.err # "none"
        THEN LoadResult(m.err, m.reg, NoPico, m.ran, FALSE, FALSE, FALSE,
                        <<"open", "code">>)
        ELSE IF l.err # "none"
        THEN LoadResult(l.err, m.reg, NoPico, m.ran, FALSE, FALSE, FALSE,
                        <<"open", "code", "payload">>)
        ELSE IF v.err # "none"
        THEN LoadResult(v.err, m.reg, NoPico, m.ran, v.warned, v.vchecked, v.vok, s4)
        ELSE LoadResult("none", m.reg, attach(l.pico, data), m.ran, v.warned, v.vchecked,
                        v.vok, s4 \o <<"attach">>)

\* load_pico(datafile, module=module, check_version=check_version), run on
\* the registry reg. err is the exception the call ends with; ExecError is the
\* Exception of line 124. steps are the steps the call entered.
load_pico(reg, datafile, module, check_version) ==
    LET f == disk[datafile]
        data == f.data
        m == materialize(reg, data, module)
        v == version_gate(data, check_version)
        l == loads(m.reg, data)
        s3 == <<"open", "code">> \o (IF check_version THEN <<"version">> ELSE <<>>)
    IN  IF f.kind # "pico"
        THEN LoadResult(open_error, reg, NoPico, NoRun, FALSE, FALSE, FALSE, <<"open">>)
        ELSE IF m.err # "none"
        THEN LoadResult(m.err, m.reg, NoPico, m.ran, FALSE, FALSE, FALSE,
                        <<"open", "code">>)
        ELSE IF v.err # "none"
        THEN LoadResult(v.err, m.reg, NoPico, m.ran, v.warned, v.vchecked, v.vok, s3)
        ELSE IF l.err # "none"
        THEN LoadResult(l.err, m.reg, NoPico, m.ran, v.warned, v.vchecked, v.vok,
                        s3 \o <<"payload">>)
        ELSE LoadResult("none", m.reg, attach(l.pico, data), m.ran, v.warned, v.vchecked,
                        v.vok, s3 \o <<"payload", "attach">>)

\* --------------------------------------------------------- create_pico
CreateResult(err, reg, dsk, ran, calls, pico, name, inner) ==
    [err |-> err, reg |-> reg, disk |-> dsk, ran |-> ran, calls |-> calls,
     pico |-> pico, name |-> name, inner |-> inner]

\* The result of a load that did not take place.
NoLoad == LoadResult("none", registry, NoPico, NoRun, FALSE, FALSE, FALSE, <<>>)

\* The datafile written without the version key.
save_unversioned(dsk, codefile, datafile, name, pico, fault) ==
    LET opened == [dsk EXCEPT ![datafile] = Garbage]
        data == Container(Fields \ {"version"}, src[codefile], name,
                          Payload(pico.mod, pico.state), NoVersion)
    IN  IF src[codefile] = NoCode THEN [err |-> "IOError", disk |-> opened]
        ELSE IF py = 3 THEN [err |-> "TypeError", disk |-> opened]
        ELSE IF fault THEN [err |-> "IOError", disk |-> opened]
        ELSE [err |-> "none", disk |-> [dsk EXCEPT ![datafile] = File(data)]]

\* Lines 169-174: open(datafile,'w') empties the file; then the dictionary is
\* built (the code file is read, the object pickled) and dumped. A file opened
\* in text mode takes no bytes under Python 3; fault is a write error of the
\* operating system (a full disk).
save(dsk, codefile, datafile, name, pico, fault) ==
    LET opened == [dsk EXCEPT ![datafile] = Garbage]
        data == Container(Fields, src[codefile], name, Payload(pico.mod, pico.state),
                          version__)
    IN  IF src[codefile] = NoCode THEN [err |-> "IOError", disk |-> opened]
        ELSE IF py = 3 THEN [err |-> "TypeError", disk |-> opened]
        ELSE IF fault THEN [err |-> "IOError", disk |-> opened]
        ELSE [err |-> "none", disk |-> [dsk EXCEPT ![datafile] = File(data)]]

\* Lines 163-165: the module name is the md5 of the code file's absolute path
\* and time.ctime() (hashlib.md5 takes no text string under Python 3);
\* noargs is args=None, which get_pico(*args) cannot unpack.
create_fresh(reg, codefile, noargs, args) ==
    LET name == <<codefile, clock>>
        ls == load_source(reg, name, codefile)
    IN  IF py = 3
        THEN [err |-> "TypeError", reg |-> reg, ran |-> NoRun, calls |-> 0,
              pico |-> NoPico, name |-> NoName]
        ELSE IF ls.err # "none"
        THEN [err |-> ls.err, reg |-> ls.reg, ran |-> ls.ran, calls |-> 0,
              pico |-> NoPico, name |-> name]
        ELSE IF noargs
        THEN [err |-> "TypeError", reg |-> ls.reg, ran |-> ls.ran, calls |-> 0,
              pico |-> NoPico, name |-> name]
        ELSE [err |-> "none", reg |-> ls.reg, ran |-> ls.ran, calls |-> 1,
              pico |-> Pico(name, src[codefile], args), name |-> name]

\* create_pico(codefile, datafile, args, existing_pico)
create_pico(codefile, datafile, noargs, args, existing_pico, fault) ==
    LET fresh == create_fresh(registry, codefile, noargs, args)
        inner == load_pico(registry, existing_pico, NoPath, TRUE)
    IN  IF existing_pico = NoPath
        THEN IF fresh.err # "none"
             THEN CreateResult(fresh.err, fresh.reg, disk, fresh.ran, fresh.calls,
                               NoPico, fresh.name, NoLoad)
             ELSE LET sv == save(disk, codefile, datafile, fresh.name, fresh.pico, fault)
                  IN  CreateResult(sv.err, fresh.reg, sv.disk, fresh.ran, fresh.calls,
                                   fresh.pico, fresh.name, NoLoad)
        ELSE IF inner.err # "none"
             THEN CreateResult(inner.err, inner.reg, disk, inner.ran, 0, NoPico, NoName,
                               inner)
             ELSE LET name == inner.pico.pico_data.module_name
                      sv == save(disk, codefile, datafile, name, inner.pico, fault)
                  IN  CreateResult(sv.err, inner.reg, sv.disk, inner.ran, 0, inner.pico,
                                   name, inner)

\* -------------------------------------------------------------- actions
\* What a call did: its arguments, the exception it ended with ("none" when it
\* returned), the object it returned or pickled, the code it executed, the
\* calls of get_pico it made, the module name it used, of the load it made the
\* version check and the steps entered, and what it changed: had is whether
\* the datafile's module name was registered when the call began, kept whether
\* the call left sys.modules as it was, fkept whether it left the file at
\* datafile as it was, rerun (redone) whether the embedded code it executed had
\* been executed (to its end) before in this sequence of plain loads, follows
\* whether the call before it was a create_pico that returned after writing
\* this call's datafile, and made the object that create_pico pickled.
Last(op, err, datafile, codefile, other, check, noargs, args, pico, ran, calls, name, inner, book) ==
    [op |-> op, err |-> err, datafile |-> datafile, codefile |-> codefile,
     other |-> other, check |-> check, noargs |-> noargs, args |-> args, pico |-> pico,
     ran |-> ran, calls |-> calls, name |-> name, warned |-> inner.warned,
     vchecked |-> inner.vchecked, vok |-> inner.vok, steps |-> inner.steps,
     had |-> book.had, kept |-> book.kept, fkept |-> book.fkept, rerun |-> book.rerun,
     redone |-> book.redone, follows |-> book.follows, made |-> book.made]

NoBook == [had |-> FALSE, kept |-> TRUE, fkept |-> TRUE, rerun |-> FALSE,
           redone |-> FALSE, follows |-> FALSE, made |-> NoPico]

\* What last holds after a step that is no call of the library.
Idle == Last("idle", "none", NoPath, NoPath, NoPath, FALSE, FALSE, <<>>, NoPico, NoRun, 0,
             NoName, LoadResult("none", <<>>, NoPico, NoRun, FALSE, FALSE, FALSE, <<>>),
             NoBook)

\* Whether the module name of the datafile at path d is registered.
Registered(d) ==
    /\ disk[d].kind = "pico"
    /\ "module_name" \in disk[d].data.has
    /\ registry[disk[d].data.module_name].present

\* The threads of a process that calls load_pico from several threads, and a
\* thread that has not called yet: pc is the line its call stands before,
\* absent whether line 117 found the name missing, ran whether it executed
\* the embedded code, put whether it registered a module.
Threads == {"t1", "t2"}
IdleThread == [pc |-> "idle", datafile |-> NoPath, absent |-> FALSE, ran |-> FALSE,
               put |-> FALSE, err |-> "none"]

\* The datafiles earlier processes left on disk.
OldName == <<OldPath, 0>>
OldFile(has, code, ok, version) ==
    File(Container(has, code, OldName, [Payload(OldName, <<>>) EXCEPT !.ok = ok], version))
InitFiles ==
    {OldFile(Fields, "cA", TRUE, v) : v \in BundleVersions}
    \cup {OldFile(Fields \ {"version"}, "cA", TRUE, NoVersion),
          OldFile(Fields, "cBad", TRUE, version__),
          OldFile(Fields, "cA", FALSE, version__)}
    \cup {OldFile(Fields \ {"code"}, NoCode, TRUE, version__),
          OldFile(Fields \ {"pico"}, "cA", FALSE, version__),
          File(Container(Fields \ {"module_name"}, "cA", NoName,
                         Payload(OldName, <<>>), version__))}

Init ==
    /\ py \in {2, 3}
    /\ disk \in {[d \in DataPaths |-> IF d = "d1" THEN f ELSE g] :
                    f \in InitFiles, g \in {Absent, OldFile(Fields, "cB", TRUE, version__)}}
    /\ src = [p \in CodePaths |-> "cB"]
    /\ registry = [n \in Names |-> NoUnit]
    /\ clock = 0
    /\ execd = {}
    /\ done = {}
    /\ last = Idle
    /\ threads = [t \in Threads |-> IdleThread]

\* A call load_pico(datafile, module=module, check_version=check_version).
Load(datafile, module, check_version) ==
    \E r \in {load_pico(registry, datafile, module, check_version)} :
        /\ registry' = r.reg
        /\ execd' = IF module # NoPath THEN {}
                    ELSE IF r.ran.from = "embedded" THEN execd \cup {r.ran.name}
                    ELSE execd
        /\ done' = IF module # NoPath THEN {}
                   ELSE IF r.ran.from = "embedded" /\ r.reg[r.ran.name].present
                   THEN done \cup {r.ran.name}
                   ELSE done
        /\ last' = Last("load", r.err, datafile, NoPath, module, check_version, FALSE,
                        <<>>, r.pico, r.ran, 0, NoName, r,
                        [had |-> Registered(datafile), kept |-> r.reg = registry,
                         fkept |-> TRUE,
                         rerun |-> r.ran.from = "embedded" /\ r.ran.name \in execd,
                         redone |-> r.ran.from = "embedded" /\ r.ran.name \in done,
                         follows |-> /\ last.op = "create"
                                     /\ last.err = "none"
                                     /\ last.datafile = datafile,
                         made |-> IF last.op = "create" /\ last.err = "none"
                                     /\ last.datafile = datafile
                                  THEN last.pico ELSE NoPico])
        /\ UNCHANGED <<py, disk, src, clock, threads>>

\* A call create_pico(codefile, datafile, args, existing_pico).
Create(codefile, datafile, noargs, args, existing_pico, fault) ==
    \E r \in {create_pico(codefile, datafile, noargs, args, existing_pico, fault)} :
        /\ registry' = r.reg
        /\ disk' = r.disk
        /\ execd' = {}
        /\ done' = {}
        /\ last' = Last("create", r.err, datafile, codefile, existing_pico, TRUE, noargs,
                        args, r.pico, r.ran, r.calls, r.name, r.inner,
                        [NoBook EXCEPT !.had = IF existing_pico = NoPath
                                                THEN registry[<<codefile, clock>>].present
                                                ELSE Registered(existing_pico),
                                       !.kept = r.reg = registry,
                                       !.fkept = r.disk[datafile] = disk[datafile]])
        /\ UNCHANGED <<py, src, clock, threads>>

\* The user edits or removes a code file.
EditSource(path, code) ==
    /\ src[path] # code
    /\ src' = [src EXCEPT ![path] = code]
    /\ last' = Idle
    /\ UNCHANGED <<py, disk, registry, clock, execd, done, threads>>

\* A second passes.
Tick ==
    /\ clock < MaxClock
    /\ clock' = clock + 1
    /\ last' = Idle
    /\ UNCHANGED <<py, disk, src, registry, execd, done, threads>>

\* In a create_pico call the empty tuple of arguments stands for args=None.
Next ==
    \/ \E d \in DataPaths, m \in CodePaths \cup {NoPath}, c \in BOOLEAN : Load(d, m, c)
    \/ \E c \in CodePaths, d \in OutPaths, a \in ArgsGiven \cup {<<>>},
          e \in ReusePaths \cup {NoPath}, f \in BOOLEAN : Create(c, d, a = <<>>, a, e, f)
    \/ \E p \in CodePaths, c \in SourceCodes \cup {NoCode} : EditSource(p, c)
    \/ Tick

Spec == Init /\ [][Next]_vars

\* ------------------------------------------- load_pico on several threads
\* A plain load_pico(datafile) with check_version run by thread t, one action
\* for each stretch between two points where the interpreter may switch
\* threads: reading the file and executing code both release the interpreter
\* lock, and the source takes no lock of its own.
ThreadData(t) == disk[threads[t].datafile].data

\* Lines 109-112: the thread opens and unpickles the datafile.
TOpen(t, datafile) ==
    /\ threads[t].pc = "idle"
    /\ threads' = [threads EXCEPT ![t] =
            IF disk[datafile].kind # "pico"
            THEN [@ EXCEPT !.pc = "failed", !.datafile = datafile, !.err = open_error]
            ELSE IF "module_name" \notin disk[datafile].data.has
            THEN [@ EXCEPT !.pc = "failed", !.datafile = datafile, !.err = "KeyError"]
            ELSE [@ EXCEPT !.pc = "117", !.datafile = datafile]]
    /\ UNCHANGED <<py, disk, src, registry, clock, execd, done, last>>

\* Line 117: if data['module_name'] not in sys.modules
TCheck(t) ==
    /\ threads[t].pc = "117"
    /\ threads' = [threads EXCEPT ![t] =
            IF registry[ThreadData(t).module_name].present
            THEN [@ EXCEPT !.pc = "126"]
            ELSE [@ EXCEPT !.pc = "119", !.absent = TRUE]]
    /\ UNCHANGED <<py, disk, src, registry, clock, execd, done, last>>

\* Lines 119-121: the embedded code is executed in a new module.
TExec(t) ==
    /\ threads[t].pc = "119"
    /\ threads' = [threads EXCEPT ![t] =
            IF "code" \notin ThreadData(t).has
            THEN [@ EXCEPT !.pc = "failed", !.err = "KeyError"]
            ELSE IF Raises(ThreadData(t).code)
            THEN [@ EXCEPT !.pc = "failed", !.ran = TRUE, !.err = "ExecError"]
            ELSE [@ EXCEPT !.pc = "122", !.ran = TRUE]]
    /\ UNCHANGED <<py, disk, src, registry, clock, execd, done, last>>

\* Line 122: sys.modules[data['module_name']] = mymod
TInsert(t) ==
    /\ threads[t].pc = "122"
    /\ registry' = [registry EXCEPT ![ThreadData(t).module_name] = Unit(ThreadData(t).code)]
    /\ threads' = [threads EXCEPT ![t] = [@ EXCEPT !.pc = "126", !.put = TRUE]]
    /\ UNCHANGED <<py, disk, src, clock, execd, done, last>>

\* Lines 126-136: the version check, the payload, the return.
TFinish(t) ==
    /\ threads[t].pc = "126"
    /\ \E v \in {version_gate(ThreadData(t), TRUE)}, l \in {loads(registry, ThreadData(t))} :
          threads' = [threads EXCEPT ![t] =
              IF v.err # "none" THEN [@ EXCEPT !.pc = "failed", !.err = v.err]
              ELSE IF l.err # "none" THEN [@ EXCEPT !.pc = "failed", !.err = l.err]
              ELSE [@ EXCEPT !.pc = "returned"]]
    /\ UNCHANGED <<py, disk, src, registry, clock, execd, done, last>>

NextThreads ==
    \/ \E t \in Threads, d \in DataPaths : TOpen(t, d)
    \/ \E t \in Threads : TCheck(t)
    \/ \E t \in Threads : TExec(t)
    \/ \E t \in Threads : TInsert(t)
    \/ \E t \in Threads : TFinish(t)

SpecThreads == Init /\ [][NextThreads]_vars

\* ------------------------------------------------------ convert_picofile
\* Paths given to convert_picofile are sequences of pieces, "." being a piece
\* of its own. os.path.splitext cuts a path before its last dot, a dot that
\* begins the path not counting.
splitext(path) ==
    LET dots == {i \in 2..Len(path) : path[i] = "."}
        k == CHOOSE i \in dots : \A j \in dots : j <= i
    IN  IF dots = {} THEN <<path, <<>>>>
        ELSE <<SubSeq(path, 1, k - 1), SubSeq(path, k, Len(path))>>

\* The path with "_converted" put before the extension.
newdatafile_converted(datafile) ==
    splitext(datafile)[1] \o <<"_converted">> \o splitext(datafile)[2]

\* Line 25: os.path.splitext(datafile)[0] + "_py3.dat"
newdatafile(datafile) == splitext(datafile)[1] \o <<"_py3", ".", "dat">>

\* The datafiles converted, and the paths of the file system.
ConvertIn == {<<"a", ".", "pico">>, <<"b">>}
ConvertPaths == ConvertIn \cup {newdatafile(d) : d \in ConvertIn}

\* A datafile as Python 2 pickled it: its keys and its payload are byte
\* strings for Python 3, which pickle.load reads with encoding="bytes" only.
\* A file of kind "pico" is one in the running interpreter's own pickle format.
Legacy(file) == [file EXCEPT !.kind = "pico2"]

\* convert_picofile(datafile, codefile) on the files dsk. Python 2's
\* pickle.load takes no encoding argument; the keys b"module_name",
\* b"version" and b"pico" are read without a default, and a dictionary
\* pickled by Python 3 has none of them.
convert_picofile(dsk, datafile, codefile) ==
    LET f == dsk[datafile]
        old == f.data
        new == Container(Fields, src[codefile], old.module_name, old.pico, old.version)
        fail(e) == [err |-> e, disk |-> dsk, path |-> NoPath]
    IN  IF f.kind = "absent" THEN fail("IOError")
        ELSE IF py = 2 THEN fail("TypeError")
        ELSE IF f.kind = "garbage" THEN fail("UnpicklingError")
        ELSE IF src[codefile] = NoCode THEN fail("IOError")
        ELSE IF f.kind # "pico2" THEN fail("KeyError")
        ELSE IF ~({"module_name", "version", "pico"} \subseteq old.has) THEN fail("KeyError")
        ELSE [err |-> "none",
              disk |-> [dsk EXCEPT ![newdatafile(datafile)] = File(new)],
              path |-> newdatafile(datafile)]

\* A call convert_picofile(datafile, codefile); last.other is the path written.
Convert(datafile, codefile) ==
    \E r \in {convert_picofile(disk, datafile, codefile)} :
        /\ disk' = r.disk
        /\ last' = Last("convert", r.err, datafile, codefile, r.path, FALSE, FALSE, <<>>,
                        NoPico, NoRun, 0, NoName, NoLoad,
                        [NoBook EXCEPT !.fkept = r.disk[datafile] = disk[datafile]])
        /\ UNCHANGED <<py, src, registry, clock, execd, done, threads>>

InitConvert ==
    /\ py \in {2, 3}
    /\ disk \in {[d \in ConvertPaths |->
                     IF d = <<"a", ".", "pico">> THEN Legacy(f)
                     ELSE IF d = <<"b">> THEN g
                     ELSE Absent] :
                    f \in InitFiles, g \in {Absent, Garbage, OldFile(Fields, "cA", TRUE, version__)}}
    /\ src = [p \in CodePaths |-> "cB"]
    /\ registry = [n \in Names |-> NoUnit]
    /\ clock = 0
    /\ execd = {}
    /\ done = {}
    /\ last = Idle
    /\ threads = [t \in Threads |-> IdleThread]

NextConvert ==
    \/ \E d \in ConvertIn, c \in CodePaths : Convert(d, c)
    \/ \E p \in CodePaths, c \in SourceCodes \cup {NoCode} : EditSource(p, c)

SpecConvert == InitConvert /\ [][NextConvert]_vars

\* ================================================================ claims
Range(s) == {s[i] : i \in DOMAIN s}
\* The datafile dictionary the last call opened (a load leaves the disk alone).
Opened == disk[last.datafile].data
\* The last call was a load that got past opening the datafile.
LoadedFile == last.op = "load" /\ last.steps # <<"open">>
\* The last call was a load that got past the code step.
PastCode == LoadedFile /\ Len(last.steps) > 2
\* The last call was a load that returned.
Returned == last.op = "load" /\ last.err = "none" /\ last.pico.valid

\* Compatibility as documented: equal major components, and the running minor
\* component not below the datafile's; the patch component plays no part.
Compatible(running, bundle) ==
    /\ parse(running)[1] = parse(bundle)[1]
    /\ parse(running)[2] >= parse(bundle)[2]

\* C1: whenever a load compared versions, the comparator's answer was
\* "compatible" exactly when the datafile's major component equals the running
\* one and its minor component is not above the running one.
C1_ComparatorCrossVersion ==
    (last.op = "load" /\ last.vchecked)
        => (last.vok <=> Compatible(version__, Opened.version))

\* C2: a load with check_version on a datafile whose stored version is
\* incompatible, and whose code step succeeded, ends with the version failure
\* and returns no object.
C2_IncompatibleLoadFails ==
    (/\ last.op = "load"
     /\ last.check
     /\ Len(last.steps) > 2
     /\ "version" \in Opened.has
     /\ ~Compatible(version__, Opened.version))
        => (last.err = VersionError /\ ~last.pico.valid)

\* C3: a load of a datafile without version never ends with the version
\* failure, and with check_version it warns and goes on to unpickle the
\* payload; a load without check_version never ends with the version failure
\* and never warns, whatever version is stored.
C3_MissingVersionWarns ==
    /\ (PastCode /\ "version" \notin Opened.has)
            => /\ last.err # VersionError
               /\ last.check => (last.warned /\ last.steps[4] = "payload")
    /\ (last.op = "load" /\ ~last.check)
            => (last.err # VersionError /\ ~last.warned)

\* A load with check_version of a datafile without version warned and returned the object.
C3_Witness ==
    /\ Returned
    /\ last.check
    /\ "version" \notin Opened.has
    /\ last.warned

\* The last call was a plain load: load_pico without module argument.
PlainLoad == LoadedFile /\ last.other = NoPath

\* C4, as stated: in a sequence of plain loads the embedded code of a module
\* name is executed at most once.
C4_ExecutedAtMostOnce == PlainLoad => ~last.rerun

\* C4, amended: in a sequence of plain loads the embedded code of a module name
\* runs to its end at most once, and a load that finds the name registered
\* executes no code and leaves sys.modules as it was; embedded code that raised
\* is executed again by the next plain load of that name.
C4_CompletedAtMostOnce ==
    PlainLoad =>
        /\ ~last.redone
        /\ last.had => (last.ran.from = "none" /\ last.kept)
        /\ last.rerun => ~last.had

\* A plain load found the name registered by an earlier plain load of the
\* sequence, executed nothing and went on.
C4_Witness ==
    /\ PlainLoad
    /\ last.had
    /\ Opened.module_name \in done
    /\ last.ran.from = "none"
    /\ PastCode

\* The last call was a load with a module argument that opened the datafile,
\* found a module name in it and a code file at the module path.
OverrideLoad ==
    /\ LoadedFile
    /\ last.other # NoPath
    /\ "module_name" \in Opened.has
    /\ src[last.other] # NoCode

CodeFailed ==
    /\ last.op \in {"load", "create"}
    /\ last.ran.from # "none"
    /\ Raises(last.ran.code)

\* C6: when executing code fails, sys.modules is what it was before the call:
\* no module is added, and a module registered under the name is neither
\* removed nor altered.
C6_FailedCodeLeavesRegistry == CodeFailed => last.kept

\* C7: after a create_pico call the file at datafile is the complete new
\* datafile when the call returned, and what it was before when the call failed.
C7_AtomicWrite ==
    last.op = "create" =>
        IF last.err = "none"
        THEN disk[last.datafile].kind = "pico" /\ disk[last.datafile].data.has = Fields
        ELSE last.fkept

\* Two PICO objects of the same class code and state: the same inputs, outputs
\* and results.
SameModel(a, b) == a.valid /\ b.valid /\ a.cls = b.cls /\ a.state = b.state

\* C8: a load_pico(datafile) that follows a create_pico that returned after
\* writing datafile returns an object equal to the one create_pico pickled, and
\* the datafile holds that object's pickle.
C8_CreateThenLoad ==
    (last.op = "load" /\ last.follows /\ last.other = NoPath /\ last.check)
        => /\ Returned
           /\ SameModel(last.pico, last.made)
           /\ Opened.pico = Payload(last.made.mod, last.made.state)

C10_FactoryCalledOnce ==
    /\ (last.op = "create" /\ last.other = NoPath
            /\ last.ran.from = "file" /\ ~Raises(last.ran.code))
        => last.calls = 1
    /\ (last.op = "create" /\ last.other # NoPath)
        => /\ last.calls = 0
           /\ (/\ Len(last.steps) > 2
               /\ "version" \in disk[last.other].data.has
               /\ ~Compatible(version__, disk[last.other].data.version))
                  => last.err = VersionError
           /\ last.err = "none" =>
                  disk[last.datafile].data.module_name = disk[last.other].data.module_name

\* C11: the object a load returned carries the datafile's dictionary without
\* the payload: the same keys but pico, the same module name, version (when
\* the datafile has one) and code; the dictionary is attached after the
\* payload was unpickled, and a load that failed attached nothing.
C11_ProvenanceAttached ==
    /\ Returned =>
            /\ last.pico.hasdata
            /\ last.pico.pico_data.has = Opened.has \ {"pico"}
            /\ last.pico.pico_data.pico = NoPayload
            /\ "module_name" \in last.pico.pico_data.has
            /\ last.pico.pico_data.module_name = Opened.module_name
            /\ last.pico.pico_data.version = Opened.version
            /\ last.pico.pico_data.code = Opened.code
            /\ SubSeq(last.steps, Len(last.steps) - 1, Len(last.steps))
                    = <<"payload", "attach">>
    /\ (last.op = "load" /\ last.err # "none") =>
            (~last.pico.hasdata /\ "attach" \notin Range(last.steps))

\* A load returned an object carrying the module name and the version of a
\* datafile that has all four keys.
C11_Witness ==
    /\ Returned
    /\ Opened.has = Fields
    /\ last.pico.pico_data.has = {"code", "module_name", "version"}
    /\ last.pico.pico_data.version = version__

\* The steps of a load in the order of the source: open and unpickle the
\* datafile, the code, the version (with check_version), the payload, the
\* attachment.
StepOrder(check_version) ==
    <<"open", "code">> \o (IF check_version THEN <<"version">> ELSE <<>>)
        \o <<"payload", "attach">>

\* C12: the steps a load entered are an initial part of the order open, code,
\* version, payload, attach (version left out without check_version); it
\* executed code only for a datafile it could unpickle; it came to the payload
\* only after the version check passed, warned of a missing version, or was
\* skipped; it returned an object exactly when it entered the last step, and
\* a load that failed returned none.
C12_StepOrder ==
    last.op = "load" =>
        /\ Len(last.steps) \in 1..Len(StepOrder(last.check))
        /\ last.steps = SubSeq(StepOrder(last.check), 1, Len(last.steps))
        /\ last.ran.from # "none" => disk[last.datafile].kind = "pico"
        /\ "payload" \in Range(last.steps) =>
                (last.check => (last.warned \/ (last.vchecked /\ last.vok)))
        /\ (last.check /\ PastCode /\ "version" \notin Opened.has) => last.warned
        /\ last.pico.valid <=> last.steps = StepOrder(last.check)
        /\ last.pico.valid <=> last.err = "none"

\* A load with check_version went through all five steps and returned.
C12_Witness ==
    /\ Returned
    /\ last.check
    /\ last.vchecked
    /\ last.steps = <<"open", "code", "version", "payload", "attach">>

\* A load failed in the payload step, after the code and the version steps.
C12_WitnessFailure ==
    /\ last.op = "load"
    /\ last.err = "UnpicklingError"
    /\ last.steps = <<"open", "code", "version", "payload">>
    /\ ~last.pico.valid

\* C13: a load of a path that holds no datafile (no file, or bytes that do not
\* unpickle) ends with the Exception of line 112 and with no other exception,
\* and leaves sys.modules and the files as they were.
C13_OpenFailureReported ==
    (last.op = "load" /\ disk[last.datafile].kind # "pico")
        => (last.err = OpenError /\ last.kept /\ last.fkept)

\* The keys load_pico reads without a default.
Required == {"code", "module_name", "pico"}

\* C14: a load of a datafile without one of the keys code, module_name, pico
\* does not return, whatever sys.modules holds, and a datafile that lacks
\* only version is not refused where the dictionary is read.
C14_MissingFieldRejected ==
    /\ (LoadedFile /\ ~(Required \subseteq Opened.has)) => last.err # "none"
    /\ (LoadedFile /\ Opened.has = Required) => last.err # "KeyError"

\* C15: no two threads loading datafiles of one module name have both found
\* the name missing at line 117, both executed the embedded code and both
\* registered a module under the name.
C15_RegistryMutualExclusion ==
    \A t, u \in Threads :
        (/\ t # u
         /\ threads[t].datafile # NoPath
         /\ threads[u].datafile # NoPath
         /\ disk[threads[t].datafile].kind = "pico"
         /\ disk[threads[u].datafile].kind = "pico"
         /\ ThreadData(t).module_name = ThreadData(u).module_name)
            => ~(/\ threads[t].absent /\ threads[u].absent
                 /\ threads[t].ran /\ threads[u].ran
                 /\ threads[t].put /\ threads[u].put)

\* C16: the module name a create_pico call without existing_pico generated was
\* not registered when the call began: it differs from the name every earlier
\* call of the process generated and registered, also for the same code file.
C16_FreshNameUnique ==
    (last.op = "create" /\ last.other = NoPath /\ last.name # NoName) => ~last.had

\* C17: convert_picofile run by Python 3 on a Python 2 datafile that has code,
\* module name and a sound payload but no version, with a code file at hand,
\* returns, has written a datafile with all four keys and a version at the
\* path with "_converted" before the extension, and left the original as it
\* was.
C17_MigrationSucceeds ==
    (/\ last.op = "convert"
     /\ py = 3
     /\ src[last.codefile] # NoCode
     /\ disk[last.datafile].kind = "pico2"
     /\ Opened.has = Fields \ {"version"}
     /\ Opened.pico.ok)
        => /\ last.err = "none"
           /\ last.fkept
           /\ last.other = newdatafile_converted(last.datafile)
           /\ disk[last.other].kind = "pico"
           /\ disk[last.other].data.has = Fields
           /\ disk[last.other].data.version # NoVersion

\* The module name of the datafile the last load opened was either not
\* registered when the load began, or registered by a plain load of the
\* sequence of plain loads under way, from embedded code.
NoOverrideBefore == last.had => Opened.module_name \in done

\* C18, as stated: when a plain load returned, in a sequence of plain loads,
\* the module registered under the datafile's module name has the datafile's
\* embedded code.
C18_RegistryCoherent ==
    (PlainLoad /\ Returned /\ NoOverrideBefore)
        => /\ registry[Opened.module_name].present
           /\ registry[Opened.module_name].code = Opened.code

\* C18, amended: after the code step of a plain load a module is registered
\* under the datafile's module name; it has the datafile's embedded code when
\* this load executed that code, which it does only when the name was not
\* registered; when the name was registered the load executes nothing and
\* leaves the module as it is, whatever code it came from; and the object
\* returned is of the class of the registered module.
C18_RegistryFirstComer ==
    /\ (PlainLoad /\ PastCode) =>
            /\ registry[Opened.module_name].present
            /\ last.ran.from = "embedded" =>
                    (~last.had /\ registry[Opened.module_name].code = Opened.code)
            /\ last.had => (last.ran.from = "none" /\ last.kept)
    /\ (PlainLoad /\ Returned) => last.pico.cls = registry[Opened.pico.mod].code

\* A plain load returned an object of the code another datafile of the same
\* module name had registered, which is not the code of the datafile loaded.
C18_Witness ==
    /\ PlainLoad
    /\ Returned
    /\ last.had
    /\ NoOverrideBefore
    /\ registry[Opened.module_name].code # Opened.code
    /\ last.pico.cls # Opened.code

\* C19: a load that failed when opening the datafile or in the code step left
\* sys.modules as it was; a load that failed after the code step kept the
\* module that step registered; no load that failed removed a module
\* registered before, nor wrote a file.
C19_FailedLoadFrame ==
    (last.op = "load" /\ last.err # "none") =>
        /\ last.fkept
        /\ ~PastCode => last.kept
        /\ PastCode => registry[Opened.module_name].present
        /\ last.had => registry[Opened.module_name].present

====
